---- MODULE Spec2Model ----
(***************************************************************************)
(* Model of the web-accessibility-audit scripts:                           *)
(*   severity_guard.py       (rule engine, consistency check, batch run)   *)
(*   a11y_report_scaffold.py (schema validation, report rendering, main)   *)
(*   issue_from_template.py  (issue-ID allocation, issue creation)         *)
(*                                                                         *)
(* Texts are sequences of tokens.  A token is an atomic piece of text: a   *)
(* literal the regular expressions of severity_guard.py look for, a space, *)
(* a line break, or a word none of them looks for.                         *)
(***************************************************************************)
EXTENDS Integers, Sequences, FiniteSets, TLC

VARIABLES
    content,        \* severity_guard: the text of one issue file
    declared,       \* the value parse_declared_severity returned for content
    inferred,       \* the value infer_minimum_severity returned for content
    result,         \* the value check_file returned for content
    files,          \* severity_guard.main: the list of files (their texts)
    pc,             \* severity_guard.main: position in main
    idx,            \* severity_guard.main: number of loop iterations done
    out,            \* severity_guard.main: the lines printed
    has_failures,   \* severity_guard.main: the flag of the same name
    rc,             \* severity_guard.main: the return value (exit status)
    payload,        \* a11y_report_scaffold: the parsed JSON of --input
    rpc,            \* a11y_report_scaffold.main: position in main
    findings,       \* a11y_report_scaffold.main: the value of load_findings
    error,          \* a11y_report_scaffold.main: the ValueError raised, if any
    markdown,       \* a11y_report_scaffold.main: the value of build_markdown
    output_file,    \* a11y_report_scaffold.main: the file at output_path
    dir,            \* issue_from_template.main: the names of the files in out_dir
    issue_id,       \* issue_from_template.main: the value of next_issue_id
    title,          \* issue_from_template.main: args.title of the current run
    ipc,            \* issue_from_template.main: position in main
    created         \* issue_from_template: number of runs of main completed

guardVars == <<content, declared, inferred, result>>
batchVars == <<files, pc, idx, out, has_failures, rc>>
reportVars == <<payload, rpc, findings, error, markdown, output_file>>
issueVars == <<dir, issue_id, title, ipc, created>>
vars == <<content, declared, inferred, result, files, pc, idx, out, has_failures, rc,
          payload, rpc, findings, error, markdown, output_file,
          dir, issue_id, title, ipc, created>>
notGuard == <<batchVars, reportVars, issueVars>>
notBatch == <<guardVars, reportVars, issueVars>>
notReport == <<guardVars, batchVars, issueVars>>
notIssue == <<guardVars, batchVars, reportVars>>

(***************************************************************************)
(* Bounds                                                                  *)
(***************************************************************************)
MaxFrags == 3
MaxFiles == 3
MaxFindings == 3
MaxIssues == 3

(***************************************************************************)
(* severity_guard.py                                                       *)
(***************************************************************************)
None == "None"

SEVERITY_ORDER == [Critical |-> 0, High |-> 1, Medium |-> 2, Low |-> 3]

Severities == DOMAIN SEVERITY_ORDER

RULES ==
    << [pattern  |-> {"core task blocked", "cannot complete", "keyboard trap",
                      "inaccessible login"},
        severity |-> "Critical",
        reason   |-> "Issue text indicates a blocker for core user tasks."],
       [pattern  |-> {"checkout", "payment", "authentication", "sign in",
                      "screen reader cannot"},
        severity |-> "High",
        reason   |-> "Issue impacts critical flow or key assistive technology behavior."],
       [pattern  |-> {"contrast", "focus indicator", "aria-", "label missing"},
        severity |-> "Medium",
        reason   |-> "Issue indicates a notable accessibility barrier."] >>

\* str.lower() on the tokens of the model (re.IGNORECASE compares case-folded).
Lower(tok) ==
    CASE tok = "CHECKOUT" -> "checkout"
      [] tok = "Contrast" -> "contrast"
      [] OTHER -> tok

\* pattern.search(content) of a RULES pattern: an alternation of literals,
\* matched case-insensitively anywhere in the text.
PatternSearch(pattern, text) ==
    \E i \in 1..Len(text) : Lower(text[i]) \in pattern

\* \s of the regular expressions: a space or a line break.
IsSpace(tok) == tok \in {" ", "\n"}

\* The position after the longest run of \s starting at position i.
RECURSIVE SkipSpace(_, _)
SkipSpace(text, i) ==
    IF i <= Len(text) /\ IsSpace(text[i]) THEN SkipSpace(text, i + 1) ELSE i

\* ^ with re.MULTILINE: the start of the text or right after a line break.
AtLineStart(text, i) == i = 1 \/ text[i - 1] = "\n"

\* The regular expression ^- Severity:\s*(Critical|High|Medium|Low)\s*$ with
\* re.MULTILINE, tried at position i.  The first \s* is followed by a literal,
\* so it takes the whole run of \s; the second one may give back, and $
\* matches at the end of the text or right before a line break.
SeverityMatchAt(text, i) ==
    /\ i \in 1..Len(text)
    /\ AtLineStart(text, i)
    /\ text[i] = "- Severity:"
    /\ LET j == SkipSpace(text, i + 1)
           e == SkipSpace(text, j + 1)
       IN  /\ j <= Len(text)
           /\ text[j] \in Severities
           /\ \/ e = Len(text) + 1
              \/ \E m \in (j + 1)..(e - 1) : text[m] = "\n"

\* group(1) of the match starting at position i.
SeverityGroup(text, i) == text[SkipSpace(text, i + 1)]

\* re.search: the leftmost match.
RECURSIVE SearchSeverity(_, _)
SearchSeverity(text, i) ==
    IF i > Len(text) THEN None
    ELSE IF SeverityMatchAt(text, i) THEN SeverityGroup(text, i)
    ELSE SearchSeverity(text, i + 1)

\* The rightmost match instead of the leftmost one.
RECURSIVE SearchSeverityLast(_, _)
SearchSeverityLast(text, i) ==
    IF i < 1 THEN None
    ELSE IF SeverityMatchAt(text, i) THEN SeverityGroup(text, i)
    ELSE SearchSeverityLast(text, i - 1)

parse_declared_severity_last(text) == SearchSeverityLast(text, Len(text))

parse_declared_severity(text) == SearchSeverity(text, 1)

NoConstraint == [severity |-> None, reason |-> ""]

\* The loop over RULES, from rule k on.
RECURSIVE InferFrom(_, _)
InferFrom(text, k) ==
    IF k > Len(RULES) THEN NoConstraint
    ELSE IF PatternSearch(RULES[k].pattern, text)
         THEN [severity |-> RULES[k].severity, reason |-> RULES[k].reason]
         ELSE InferFrom(text, k + 1)

\* The loop over RULES without the early return: the last matching rule.
RECURSIVE InferLast(_, _)
InferLast(text, k) ==
    IF k < 1 THEN NoConstraint
    ELSE IF PatternSearch(RULES[k].pattern, text)
         THEN [severity |-> RULES[k].severity, reason |-> RULES[k].reason]
         ELSE InferLast(text, k - 1)

infer_minimum_severity_last(text) == InferLast(text, Len(RULES))

infer_minimum_severity(text) == InferFrom(text, 1)

\* The four messages of check_file, with the values they interpolate.
Message(kind, decl, minimum, reason) ==
    [kind |-> kind, declared |-> decl, minimum |-> minimum, reason |-> reason]

\* check_file with the comparison of the ranks turned around.
check_file_reversed(text) ==
    LET decl == parse_declared_severity(text)
        inf  == infer_minimum_severity(text)
    IN  IF decl = None
        THEN [ok |-> FALSE, message |-> Message("missing", None, None, "")]
        ELSE IF inf = NoConstraint
        THEN [ok |-> TRUE, message |-> Message("no_rule", decl, None, "")]
        ELSE IF SEVERITY_ORDER[decl] < SEVERITY_ORDER[inf.severity]
        THEN [ok |-> FALSE,
              message |-> Message("lower", decl, inf.severity, inf.reason)]
        ELSE [ok |-> TRUE,
              message |-> Message("meets", decl, inf.severity, "")]

\* check_file asking the rule engine before it looks at the declared severity.
check_file_rules_first(text) ==
    LET decl == parse_declared_severity(text)
        inf  == infer_minimum_severity(text)
    IN  IF inf = NoConstraint
        THEN [ok |-> TRUE, message |-> Message("no_rule", decl, None, "")]
        ELSE IF decl = None
        THEN [ok |-> FALSE, message |-> Message("missing", None, None, "")]
        ELSE IF SEVERITY_ORDER[decl] > SEVERITY_ORDER[inf.severity]
        THEN [ok |-> FALSE,
              message |-> Message("lower", decl, inf.severity, inf.reason)]
        ELSE [ok |-> TRUE,
              message |-> Message("meets", decl, inf.severity, "")]

check_file(text) ==
    LET decl == parse_declared_severity(text)
        inf  == infer_minimum_severity(text)
    IN  IF decl = None
        THEN [ok |-> FALSE, message |-> Message("missing", None, None, "")]
        ELSE IF inf = NoConstraint
        THEN [ok |-> TRUE, message |-> Message("no_rule", decl, None, "")]
        ELSE IF SEVERITY_ORDER[decl] > SEVERITY_ORDER[inf.severity]
        THEN [ok |-> FALSE,
              message |-> Message("lower", decl, inf.severity, inf.reason)]
        ELSE [ok |-> TRUE,
              message |-> Message("meets", decl, inf.severity, "")]

NotRun == [ok |-> FALSE, message |-> Message("not_run", None, None, "")]

(***************************************************************************)
(* a11y_report_scaffold.py                                                 *)
(*                                                                         *)
(* A JSON value is modelled by what the code asks of it.  The payload:     *)
(* whether it is an object, has the key 'findings', whether that is a list,*)
(* and its elements.  An element: whether it is an object, the keys it     *)
(* has, and the values the code reads: id, severity (as str() gives it)    *)
(* and reproduction (whether it is a list, and its steps).                 *)
(***************************************************************************)
REQUIRED_KEYS ==
    << "id", "title", "severity", "wcag", "area", "url", "selector", "impact",
       "reproduction", "actual", "expected", "recommended_fix" >>

Payload(isdict, hasFindings, isList, elems) ==
    [isdict |-> isdict, hasFindings |-> hasFindings, isList |-> isList,
     findings |-> elems]

Reproduction(islist, steps) == [islist |-> islist, steps |-> steps]

Finding(isdict, keys, id, severity, reproduction) ==
    [isdict |-> isdict, keys |-> keys, id |-> id, severity |-> severity,
     reproduction |-> reproduction]

File(state, text) == [state |-> state, text |-> text]

NoError == [kind |-> "none", index |-> 0, missing |-> <<>>]

ValueError(kind, index, missing) ==
    [kind |-> kind, index |-> index, missing |-> missing]

Raised(err) == [ok |-> FALSE, error |-> err, findings |-> <<>>]

Returned(list) == [ok |-> TRUE, error |-> NoError, findings |-> list]

\* Only the first key that is missing.
FirstMissingKey(finding) ==
    LET missing == SelectSeq(REQUIRED_KEYS, LAMBDA key : key \notin finding.keys)
    IN  IF missing = <<>> THEN <<>> ELSE <<Head(missing)>>

\* missing = [key for key in REQUIRED_KEYS if key not in finding]
MissingKeys(finding) ==
    SelectSeq(REQUIRED_KEYS, LAMBDA key : key \notin finding.keys)

\* The loop of load_findings, from element index on.
RECURSIVE ValidateFrom(_, _)
ValidateFrom(list, index) ==
    IF index > Len(list) THEN Returned(list)
    ELSE LET finding == list[index]
             missing == MissingKeys(finding)
         IN  IF ~finding.isdict
             THEN Raised(ValueError("not_object", index, <<>>))
             ELSE IF missing # <<>>
             THEN Raised(ValueError("missing_keys", index, missing))
             ELSE IF \/ ~finding.reproduction.islist
                     \/ finding.reproduction.steps = <<>>
             THEN Raised(ValueError("reproduction", index, <<>>))
             ELSE ValidateFrom(list, index + 1)

\* The loop of load_findings without the check of 'reproduction'.
RECURSIVE ValidateKeysFrom(_, _)
ValidateKeysFrom(list, index) ==
    IF index > Len(list) THEN Returned(list)
    ELSE LET finding == list[index]
             missing == MissingKeys(finding)
         IN  IF ~finding.isdict
             THEN Raised(ValueError("not_object", index, <<>>))
             ELSE IF missing # <<>>
             THEN Raised(ValueError("missing_keys", index, missing))
             ELSE ValidateKeysFrom(list, index + 1)

load_findings_keys_only(p) ==
    IF ~p.isdict \/ ~p.hasFindings
    THEN Raised(ValueError("no_findings", 0, <<>>))
    ELSE IF ~p.isList
    THEN Raised(ValueError("not_array", 0, <<>>))
    ELSE ValidateKeysFrom(p.findings, 1)

load_findings(p) ==
    IF ~p.isdict \/ ~p.hasFindings
    THEN Raised(ValueError("no_findings", 0, <<>>))
    ELSE IF ~p.isList
    THEN Raised(ValueError("not_array", 0, <<>>))
    ELSE ValidateFrom(p.findings, 1)

severity_order == [Critical |-> 0, High |-> 1, Medium |-> 2, Low |-> 3]

\* key=lambda f: severity_order.get(str(f["severity"]), 99)
SortKey(f) ==
    IF f.severity \in DOMAIN severity_order THEN severity_order[f.severity] ELSE 99

\* sorted() is stable: an element goes behind the elements whose key is less
\* than or equal to its own.
RECURSIVE InsertSorted(_, _)
InsertSorted(list, f) ==
    IF list = <<>> THEN <<f>>
    ELSE IF SortKey(Head(list)) <= SortKey(f)
         THEN <<Head(list)>> \o InsertSorted(Tail(list), f)
         ELSE <<f>> \o list

RECURSIVE InsertSortedBefore(_, _)
InsertSortedBefore(list, f) ==
    IF list = <<>> THEN <<f>>
    ELSE IF SortKey(Head(list)) < SortKey(f)
         THEN <<Head(list)>> \o InsertSortedBefore(Tail(list), f)
         ELSE <<f>> \o list

RECURSIVE SortPrefix(_, _)
SortPrefix(list, n) ==
    IF n = 0 THEN <<>> ELSE InsertSorted(SortPrefix(list, n - 1), list[n])

\* A sort that is not stable: an element goes before its equals.
RECURSIVE SortPrefixUnstable(_, _)
SortPrefixUnstable(list, n) ==
    IF n = 0 THEN <<>>
    ELSE InsertSortedBefore(SortPrefixUnstable(list, n - 1), list[n])

SortedUnstable(list) == SortPrefixUnstable(list, Len(list))

Sorted(list) == SortPrefix(list, Len(list))

\* for item in findings: if sev in totals: totals[sev] += 1
RECURSIVE TotalsLoop(_, _, _)
TotalsLoop(list, i, totals) ==
    IF i > Len(list) THEN totals
    ELSE LET sev == list[i].severity
         IN  TotalsLoop(list, i + 1,
                 IF sev \in DOMAIN totals
                 THEN [totals EXCEPT ![sev] = @ + 1]
                 ELSE totals)

\* The loop with an unknown severity counted as Low.
RECURSIVE TotalsLoopLow(_, _, _)
TotalsLoopLow(list, i, totals) ==
    IF i > Len(list) THEN totals
    ELSE LET sev == list[i].severity
         IN  TotalsLoopLow(list, i + 1,
                 IF sev \in DOMAIN totals
                 THEN [totals EXCEPT ![sev] = @ + 1]
                 ELSE [totals EXCEPT !["Low"] = @ + 1])

ZeroTotals == [Critical |-> 0, High |-> 0, Medium |-> 0, Low |-> 0]

TotalsUnknownAsLow(list) == TotalsLoopLow(list, 1, ZeroTotals)

Totals(list) == TotalsLoop(list, 1, ZeroTotals)

\* A line of the report: its kind and the values it interpolates.
Md(kind, id, severity, n, split) ==
    [kind |-> kind, id |-> id, severity |-> severity, n |-> n, split |-> split]

Fixed(kind) == Md(kind, "", "", 0, ZeroTotals)

\* The lines of one subsection of '## 3. Issue Details'.
DetailLines(f) ==
    << Md("h3", f.id, "", 0, ZeroTotals), Fixed("blank"),
       Md("detail_severity", f.id, f.severity, 0, ZeroTotals),
       Fixed("detail_wcag"), Fixed("detail_area"), Fixed("detail_url"),
       Fixed("detail_selector"), Fixed("blank"), Fixed("reproduction") >>
    \o [i \in 1..Len(f.reproduction.steps) |-> Md("step", f.id, "", i, ZeroTotals)]
    \o << Fixed("blank"), Fixed("actual"), Fixed("blank"), Fixed("expected"),
          Fixed("blank"), Fixed("impact"), Fixed("blank"), Fixed("fix"),
          Fixed("blank") >>

RECURSIVE AllDetailLines(_)
AllDetailLines(list) ==
    IF list = <<>> THEN <<>>
    ELSE DetailLines(Head(list)) \o AllDetailLines(Tail(list))

build_markdown(list) ==
    LET sorted == Sorted(list)
        totals == Totals(sorted)
    IN  << Fixed("h1"), Fixed("blank"), Fixed("h2_summary"), Fixed("blank"),
           Fixed("date"), Fixed("auditor"), Fixed("scope"), Fixed("target"),
           Md("total", "", "", Len(sorted), ZeroTotals),
           Md("split", "", "", 0, totals), Fixed("blank"),
           Fixed("h2_table"), Fixed("blank"), Fixed("table_head"),
           Fixed("table_rule") >>
        \o [i \in 1..Len(sorted) |->
               Md("row", sorted[i].id, sorted[i].severity, 0, ZeroTotals)]
        \o << Fixed("blank"), Fixed("h2_details"), Fixed("blank") >>
        \o AllDetailLines(sorted)
        \o << Fixed("h2_plan"), Fixed("blank"), Fixed("plan"), Fixed("plan"),
              Fixed("plan"), Fixed("blank"), Fixed("h2_retest"), Fixed("blank"),
              Fixed("retest"), Fixed("retest"), Fixed("retest"), Fixed("retest"),
              Fixed("blank") >>

(***************************************************************************)
(* issue_from_template.py                                                  *)
(*                                                                         *)
(* A string is the sequence of the code points of its characters, so that  *)
(* sorted() compares file names as Python compares them.                   *)
(***************************************************************************)
Hyphen == 45

Zero == 48

DotMd == <<46, 109, 100>>

Digit(c) == c \in 48..57

\* int(cs); -1 stands for the ValueError.
RECURSIVE IntOf(_, _)
IntOf(cs, acc) ==
    IF cs = <<>> THEN acc ELSE IntOf(Tail(cs), 10 * acc + (Head(cs) - Zero))

ParseInt(cs) ==
    IF cs = <<>> \/ \E i \in 1..Len(cs) : ~Digit(cs[i]) THEN -1 ELSE IntOf(cs, 0)

RECURSIVE Decimal(_)
Decimal(n) ==
    IF n < 10 THEN <<Zero + n>> ELSE Decimal(n \div 10) \o <<Zero + (n % 10)>>

RECURSIVE ZeroPad(_, _)
ZeroPad(cs, width) == IF Len(cs) < width THEN ZeroPad(<<Zero>> \o cs, width) ELSE cs

\* f"{n:03d}"
Format03d(n) == ZeroPad(Decimal(n), 3)

\* a < b for strings
RECURSIVE StrLess(_, _)
StrLess(a, b) ==
    IF b = <<>> THEN FALSE
    ELSE IF a = <<>> THEN TRUE
    ELSE IF Head(a) # Head(b) THEN Head(a) < Head(b)
    ELSE StrLess(Tail(a), Tail(b))

StartsWith(s, p) == Len(s) >= Len(p) /\ SubSeq(s, 1, Len(p)) = p

EndsWith(s, p) == Len(s) >= Len(p) /\ SubSeq(s, Len(s) - Len(p) + 1, Len(s)) = p

\* out_dir.glob(f"{prefix}-*.md") on one file name
GlobMatch(prefix, name) ==
    /\ Len(name) >= Len(prefix) + 1 + Len(DotMd)
    /\ StartsWith(name, prefix \o <<Hyphen>>)
    /\ EndsWith(name, DotMd)

\* Path.stem of a name ending in .md
Stem(name) == SubSeq(name, 1, Len(name) - Len(DotMd))

\* The piece of s from position i up to the next hyphen or the end.
RECURSIVE UpToHyphen(_, _)
UpToHyphen(s, i) ==
    IF i > Len(s) \/ s[i] = Hyphen THEN <<>> ELSE <<s[i]>> \o UpToHyphen(s, i + 1)

\* s.split("-")[1], for an s that has a hyphen
SplitSecond(s) == UpToHyphen(s, Len(UpToHyphen(s, 1)) + 2)

\* sorted(...)[-1]
Last(names) == CHOOSE m \in names : \A o \in names : o = m \/ StrLess(o, m)

next_issue_id(out_dir, prefix) ==
    LET existing == { name \in out_dir : GlobMatch(prefix, name) }
    IN  IF existing = {} THEN prefix \o <<Hyphen>> \o <<Zero, Zero, Zero + 1>>
        ELSE LET last   == SplitSecond(Stem(Last(existing)))
                 number == IF ParseInt(last) = -1 THEN Cardinality(existing)
                           ELSE ParseInt(last)
             IN  prefix \o <<Hyphen>> \o Format03d(number + 1)

LowerCode(c) == IF c \in 65..90 THEN c + 32 ELSE c

Alnum(c) == c \in 48..57 \/ c \in 97..122

\* re.sub(r"[^a-z0-9]+", "-", value) on the lower-cased value
RECURSIVE SubRuns(_, _)
SubRuns(cs, inRun) ==
    IF cs = <<>> THEN <<>>
    ELSE IF Alnum(LowerCode(Head(cs)))
         THEN <<LowerCode(Head(cs))>> \o SubRuns(Tail(cs), FALSE)
         ELSE IF inRun THEN SubRuns(Tail(cs), TRUE)
              ELSE <<Hyphen>> \o SubRuns(Tail(cs), TRUE)

\* value.strip("-")
RECURSIVE StripHyphens(_)
StripHyphens(cs) ==
    IF cs = <<>> THEN <<>>
    ELSE IF Head(cs) = Hyphen THEN StripHyphens(Tail(cs))
    ELSE IF cs[Len(cs)] = Hyphen THEN StripHyphens(SubSeq(cs, 1, Len(cs) - 1))
    ELSE cs

\* "issue"
IssueWord == <<105, 115, 115, 117, 101>>

\* The leading value.strip() removes white space, which the substitution
\* would turn into hyphens that strip("-") removes as well.
slugify(value) ==
    LET slug == StripHyphens(SubRuns(value, FALSE))
    IN  IF slug = <<>> THEN IssueWord ELSE slug

(***************************************************************************)
(* The texts check_file is applied to: up to MaxFrags fragments, each a    *)
(* short piece of an issue file.                                           *)
(***************************************************************************)
Frags ==
    { <<"- Severity:", " ", s, "\n">> : s \in Severities }
    \cup { <<"- Severity:">>, <<"\n">>, <<" ">>, <<"Title">>, <<"Low">>,
           <<"keyboard trap">>, <<"CHECKOUT">>, <<"contrast">> }

RECURSIVE Flatten(_)
Flatten(fs) == IF fs = <<>> THEN <<>> ELSE Head(fs) \o Flatten(Tail(fs))

FragSeqs == UNION { [1..n -> Frags] : n \in 0..MaxFrags }

NotCalled == "NotCalled"

GuardIdle ==
    /\ content = <<>> /\ declared = NotCalled
    /\ inferred = [severity |-> NotCalled, reason |-> ""] /\ result = NotRun

BatchIdle ==
    /\ files = <<>> /\ pc = "idle" /\ idx = 0 /\ out = <<>>
    /\ has_failures = FALSE /\ rc = -1

ReportIdle ==
    /\ payload = Payload(FALSE, FALSE, FALSE, <<>>) /\ rpc = "idle"
    /\ findings = <<>> /\ error = NoError
    /\ markdown = <<>> /\ output_file = File("absent", <<>>)

IssueIdle ==
    dir = {} /\ issue_id = <<>> /\ title = <<>> /\ ipc = "idle" /\ created = 0

InitCheck ==
    /\ \E fs \in FragSeqs : content = Flatten(fs)
    /\ declared = NotCalled
    /\ inferred = [severity |-> NotCalled, reason |-> ""]
    /\ result = NotRun
    /\ BatchIdle /\ ReportIdle /\ IssueIdle

\* A call of parse_declared_severity(content).
ParseDeclared ==
    /\ declared = NotCalled
    /\ declared' = parse_declared_severity(content)
    /\ UNCHANGED <<content, inferred, result, notGuard>>

\* A call of infer_minimum_severity(content).
InferMinimum ==
    /\ inferred.severity = NotCalled
    /\ inferred' = infer_minimum_severity(content)
    /\ UNCHANGED <<content, declared, result, notGuard>>

\* A call of check_file on a path whose text is content.
CheckFile ==
    /\ result = NotRun
    /\ result' = check_file(content)
    /\ UNCHANGED <<content, declared, inferred, notGuard>>

NextCheck == ParseDeclared \/ InferMinimum \/ CheckFile

SpecCheck == InitCheck /\ [][NextCheck]_vars

(***************************************************************************)
(* severity_guard.main: the batch run over the list of files.              *)
(***************************************************************************)
BatchDocs ==
    { <<"- Severity:", " ", "Low", "\n", "Steps", " ", "checkout">>,
      <<"- Severity:", " ", "High", "\n", "Steps", " ", "checkout">>,
      <<"- Severity:", " ", "Medium", "\n", "Title">>,
      <<"Title", "\n", "contrast">> }

FileLists == UNION { [1..n -> BatchDocs] : n \in 0..MaxFiles }

Line(status, file, message) ==
    [status |-> status, file |-> file, message |-> message]

InitBatch ==
    /\ files \in FileLists
    /\ pc = "start" /\ idx = 0 /\ out = <<>>
    /\ has_failures = FALSE /\ rc = -1
    /\ GuardIdle /\ ReportIdle /\ IssueIdle

\* if not files: print("No issue files found."); return 0
NoFiles ==
    /\ pc = "start" /\ files = <<>>
    /\ out' = Append(out, Line("NONE", 0, Message("no_files", None, None, "")))
    /\ rc' = 0
    /\ pc' = "done"
    /\ UNCHANGED <<files, idx, has_failures, notBatch>>

\* has_failures = False, and into the loop
EnterLoop ==
    /\ pc = "start" /\ files # <<>>
    /\ has_failures' = FALSE
    /\ pc' = "loop"
    /\ UNCHANGED <<files, idx, out, rc, notBatch>>

\* One iteration that leaves the loop at the first file that fails.
LoopBodyBreak ==
    /\ pc = "loop" /\ idx < Len(files)
    /\ LET r == check_file(files[idx + 1])
       IN  /\ out' = Append(out, Line(IF r.ok THEN "PASS" ELSE "FAIL",
                                      idx + 1, r.message))
           /\ has_failures' = (has_failures \/ ~r.ok)
           /\ idx' = IF r.ok THEN idx + 1 ELSE Len(files)
    /\ UNCHANGED <<files, pc, rc, notBatch>>

\* One iteration of: for file_path in files
LoopBody ==
    /\ pc = "loop" /\ idx < Len(files)
    /\ LET r == check_file(files[idx + 1])
       IN  /\ out' = Append(out, Line(IF r.ok THEN "PASS" ELSE "FAIL",
                                      idx + 1, r.message))
           /\ has_failures' = (has_failures \/ ~r.ok)
    /\ idx' = idx + 1
    /\ UNCHANGED <<files, pc, rc, notBatch>>

\* return 1 if has_failures else 0
Return ==
    /\ pc = "loop" /\ idx = Len(files)
    /\ rc' = IF has_failures THEN 1 ELSE 0
    /\ pc' = "done"
    /\ UNCHANGED <<files, idx, out, has_failures, notBatch>>

NextBatch == NoFiles \/ EnterLoop \/ LoopBody \/ Return

SpecBatch == InitBatch /\ [][NextBatch]_vars

(***************************************************************************)
(* a11y_report_scaffold.main: load, render, write.                         *)
(***************************************************************************)
RequiredKeySet == { REQUIRED_KEYS[i] : i \in 1..Len(REQUIRED_KEYS) }

Steps == Reproduction(TRUE, <<"step one", "step two">>)

Elements ==
    { Finding(TRUE, RequiredKeySet, id, sev, Steps) :
          id \in {"A11Y-001", "A11Y-002"},
          sev \in {"Critical", "High", "Medium", "Low", "Blocker"} }
    \cup { Finding(FALSE, {}, "", "", Reproduction(FALSE, <<>>)),
           Finding(TRUE, RequiredKeySet \ {"wcag", "url"}, "A11Y-001", "High", Steps),
           Finding(TRUE, RequiredKeySet \ {"reproduction"}, "A11Y-002", "Low",
                   Reproduction(FALSE, <<>>)),
           Finding(TRUE, RequiredKeySet, "A11Y-001", "Low", Reproduction(TRUE, <<>>)),
           Finding(TRUE, RequiredKeySet, "A11Y-002", "Critical",
                   Reproduction(FALSE, <<>>)) }

Payloads ==
    { Payload(FALSE, FALSE, FALSE, <<>>),
      Payload(TRUE, FALSE, FALSE, <<>>),
      Payload(TRUE, TRUE, FALSE, <<>>) }
    \cup { Payload(TRUE, TRUE, TRUE, list) :
               list \in UNION { [1..n -> Elements] : n \in 0..MaxFindings } }

InitReport ==
    /\ payload \in Payloads
    /\ rpc = "start"
    /\ findings = <<>> /\ error = NoError /\ markdown = <<>>
    /\ output_file \in { File("absent", <<>>), File("old", <<>>) }
    /\ GuardIdle /\ BatchIdle /\ IssueIdle

\* findings = load_findings(Path(args.input)); a ValueError ends the run.
LoadFindings ==
    /\ rpc = "start"
    /\ LET r == load_findings(payload)
       IN  /\ findings' = r.findings
           /\ error' = r.error
           /\ rpc' = IF r.ok THEN "loaded" ELSE "raised"
    /\ UNCHANGED <<payload, markdown, output_file, notReport>>

\* markdown = build_markdown(findings, ...)
BuildMarkdown ==
    /\ rpc = "loaded"
    /\ markdown' = build_markdown(findings)
    /\ rpc' = "built"
    /\ UNCHANGED <<payload, findings, error, output_file, notReport>>

\* output_path.write_text(markdown); return 0
WriteOutput ==
    /\ rpc = "built"
    /\ output_file' = File("written", markdown)
    /\ rpc' = "done"
    /\ UNCHANGED <<payload, findings, error, markdown, notReport>>

NextReport == LoadFindings \/ BuildMarkdown \/ WriteOutput

SpecReport == InitReport /\ [][NextReport]_vars

(***************************************************************************)
(* issue_from_template.main, run again and again on one directory.         *)
(***************************************************************************)
\* args.prefix, by default "A11Y"
PREFIX == <<65, 49, 49, 89>>

\* The name main gives the file of issue number n with the slug.
IssueFile(n, slug) ==
    PREFIX \o <<Hyphen>> \o Format03d(n) \o <<Hyphen>> \o slug \o DotMd

\* Issue files of earlier runs that may be in the directory at the start.
EarlierFiles ==
    { IssueFile(1, <<97>>), IssueFile(2, <<98>>), IssueFile(7, <<97>>),
      IssueFile(998, <<97>>), IssueFile(999, <<98>>) }

\* args.title: "a", "B!", "a b" and the empty title
Titles == { <<97>>, <<66, 33>>, <<97, 32, 98>>, <<>> }

InitIssue ==
    /\ dir \in SUBSET EarlierFiles
    /\ issue_id = <<>> /\ title = <<>> /\ ipc = "start" /\ created = 0
    /\ GuardIdle /\ BatchIdle /\ ReportIdle

\* issue_id = next_issue_id(out_dir, args.prefix)
AllocateId ==
    /\ ipc = "start" /\ created < MaxIssues
    /\ \E t \in Titles : title' = t
    /\ issue_id' = next_issue_id(dir, PREFIX)
    /\ ipc' = "allocated"
    /\ UNCHANGED <<dir, created, notIssue>>

\* output = out_dir / f"{issue_id}-{slug}.md"; output.write_text(...)
WriteIssue ==
    /\ ipc = "allocated"
    /\ dir' = dir \cup { issue_id \o <<Hyphen>> \o slugify(title) \o DotMd }
    /\ created' = created + 1
    /\ ipc' = "start"
    /\ UNCHANGED <<issue_id, title, notIssue>>

NextIssue == AllocateId \/ WriteIssue

SpecIssue == InitIssue /\ [][NextIssue]_vars

(***************************************************************************)
(* Claims about severity_guard.py                                          *)
(***************************************************************************)
\* Rule k of RULES matches the text.
RuleMatches(text, k) == PatternSearch(RULES[k].pattern, text)

MatchingRules(text) == { k \in 1..Len(RULES) : RuleMatches(text, k) }

\* The positions at which a parseable declared-severity line starts.
DeclaredLines(text) == { i \in 1..Len(text) : SeverityMatchAt(text, i) }

Min(S) == CHOOSE x \in S : \A y \in S : x <= y

Rank(sev) == CASE sev = "Critical" -> 0 [] sev = "High" -> 1
               [] sev = "Medium" -> 2 [] sev = "Low" -> 3

\* C1: with a declared severity D and a floor F, check_file passes exactly
\* when rank(D) <= rank(F); with the checkout (High) rule as the only matching
\* rule it fails for Low and Medium and passes for High and Critical; with no
\* matching rule it passes for every declared severity.
C1_PassIffAtLeastAsSevere ==
    (result # NotRun /\ DeclaredLines(content) # {}) =>
        LET D == parse_declared_severity(content)
            F == infer_minimum_severity(content)
        IN  /\ F # NoConstraint =>
                   (result.ok <=> Rank(D) <= Rank(F.severity))
            /\ MatchingRules(content) = {2} =>
                   /\ D \in {"Low", "Medium"} => ~result.ok
                   /\ D \in {"High", "Critical"} => result.ok
            /\ MatchingRules(content) = {} => result.ok

C1_Witness ==
    /\ result # NotRun
    /\ MatchingRules(content) = {2}
    /\ parse_declared_severity(content) = "Low"
    /\ ~result.ok /\ result.message.minimum = "High"

\* C2: infer_minimum_severity returns the floor and rationale of the first
\* rule, in the order Critical, High, Medium, whose pattern matches, and no
\* constraint exactly when no rule matches; a text matching the Critical
\* pattern and the contrast pattern is classified Critical.
C2_FirstMatchWins ==
    inferred.severity # NotCalled =>
        LET M == MatchingRules(content)
        IN  /\ (M = {}) <=> (inferred = NoConstraint)
            /\ inferred.severity # "Low"
            /\ M # {} =>
                  /\ inferred.severity = RULES[Min(M)].severity
                  /\ inferred.reason = RULES[Min(M)].reason
                  /\ inferred.severity =
                         <<"Critical", "High", "Medium">>[Min(M)]
            /\ (1 \in M /\ PatternSearch({"contrast"}, content)) =>
                  inferred.severity = "Critical"

C2_Witness ==
    /\ inferred.severity = "Critical"
    /\ PatternSearch({"contrast"}, content)
    /\ RuleMatches(content, 1)

\* C3: the batch run emits one PASS/FAIL line per file, in order, each with
\* the outcome of check_file for that file, also after a failure; it returns
\* 1 exactly when some file failed, and 0 for the empty list.
C3_BatchChecksAll ==
    pc = "done" =>
        /\ files # <<>> =>
              /\ Len(out) = Len(files)
              /\ \A i \in 1..Len(files) :
                    /\ out[i].file = i
                    /\ out[i].status =
                          (IF check_file(files[i]).ok THEN "PASS" ELSE "FAIL")
                    /\ out[i].message = check_file(files[i]).message
        /\ (rc = 1) <=> (\E i \in 1..Len(files) : ~check_file(files[i]).ok)
        /\ (rc = 0) <=> (\A i \in 1..Len(files) : check_file(files[i]).ok)
        /\ files = <<>> => rc = 0

C3_Witness ==
    /\ pc = "done" /\ rc = 1
    /\ Len(files) >= 2 /\ Len(out) = Len(files)
    /\ out[1].status = "FAIL"
    /\ out[2].status = "PASS"

\* C4 as claimed: a text with more than one parseable declared-severity line
\* fails with the missing-declared-severity reason.
C4_AmbiguousFails ==
    (result # NotRun /\ Cardinality(DeclaredLines(content)) > 1) =>
        (~result.ok /\ result.message.kind = "missing")

\* C4 as amended: a text with more than one parseable declared-severity line
\* is checked with the first of them as its declared severity: it never gets
\* the missing-declared-severity reason, and it passes exactly when no rule
\* matches or the first declared severity is at least as severe as the floor.
C4_FirstLineDecides ==
    (result # NotRun /\ Cardinality(DeclaredLines(content)) > 1) =>
        LET first == SeverityGroup(content, Min(DeclaredLines(content)))
            M     == MatchingRules(content)
        IN  /\ result.message.kind # "missing"
            /\ result.message.declared = first
            /\ result.ok <=>
                  (M = {} \/ Rank(first) <= Rank(RULES[Min(M)].severity))

C4_Witness ==
    /\ result # NotRun
    /\ Cardinality(DeclaredLines(content)) > 1
    /\ \E i, j \in DeclaredLines(content) :
          /\ i < j
          /\ SeverityGroup(content, i) = "High"
          /\ SeverityGroup(content, j) = "Low"
    /\ MatchingRules(content) = {2}
    /\ result.ok

\* C5: a text with no parseable declared-severity line fails with the
\* missing-declared-severity reason, whichever rules match its text.
C5_MissingAlwaysFails ==
    (result # NotRun /\ DeclaredLines(content) = {}) =>
        /\ ~result.ok
        /\ result.message = Message("missing", None, None, "")

C5_Witness ==
    /\ result # NotRun
    /\ DeclaredLines(content) = {}
    /\ MatchingRules(content) = {}
    /\ Len(content) > 0
    /\ ~result.ok /\ result.message.kind = "missing"

(***************************************************************************)
(* Claims about a11y_report_scaffold.py                                    *)
(***************************************************************************)
KnownSeverities == {"Critical", "High", "Medium", "Low"}

\* The rank the report sorts by; an unrecognized severity goes last.
ReportRank(sev) == IF sev \in KnownSeverities THEN Rank(sev) ELSE 99

LinesOfKind(md, kind) == SelectSeq(md, LAMBDA l : l.kind = kind)

PositionsOfKind(md, kind) == { i \in 1..Len(md) : md[i].kind = kind }

Perms(n) ==
    { p \in [1..n -> 1..n] : \A i, j \in 1..n : i # j => p[i] # p[j] }

\* ids and sevs list the input in stable-sorted order of the rank.
IsStableSorted(ids, sevs, input) ==
    /\ Len(ids) = Len(input) /\ Len(sevs) = Len(input)
    /\ \E p \in Perms(Len(input)) :
          /\ \A i \in 1..Len(input) :
                /\ ids[i] = input[p[i]].id
                /\ sevs[i] = input[p[i]].severity
          /\ \A i, j \in 1..Len(input) :
                i < j =>
                   /\ ReportRank(input[p[i]].severity)
                         <= ReportRank(input[p[j]].severity)
                   /\ ReportRank(input[p[i]].severity)
                         = ReportRank(input[p[j]].severity) => p[i] < p[j]

\* C6: the report has one table row and one detail subsection per finding,
\* the rows in the table section and the subsections in the detail section,
\* both in the order of the input stable-sorted by severity rank.
C6_TableAndDetailsStableSorted ==
    rpc \in {"built", "done"} =>
        LET input   == payload.findings
            rows    == LinesOfKind(markdown, "row")
            heads   == LinesOfKind(markdown, "h3")
            bullets == LinesOfKind(markdown, "detail_severity")
            table   == Min(PositionsOfKind(markdown, "h2_table"))
            details == Min(PositionsOfKind(markdown, "h2_details"))
            plan    == Min(PositionsOfKind(markdown, "h2_plan"))
        IN  /\ Len(rows) = Len(input)
            /\ Len(heads) = Len(input)
            /\ \A i \in PositionsOfKind(markdown, "row") : table < i /\ i < details
            /\ \A i \in PositionsOfKind(markdown, "h3") : details < i /\ i < plan
            /\ IsStableSorted([i \in 1..Len(rows) |-> rows[i].id],
                              [i \in 1..Len(rows) |-> rows[i].severity], input)
            /\ IsStableSorted([i \in 1..Len(heads) |-> heads[i].id],
                              [i \in 1..Len(bullets) |-> bullets[i].severity], input)

C6_Witness ==
    /\ rpc = "done"
    /\ Len(payload.findings) = 3
    /\ payload.findings[1].severity = "Low"
    /\ payload.findings[2].severity = "Critical" /\ payload.findings[2].id = "A11Y-002"
    /\ payload.findings[3].severity = "Critical" /\ payload.findings[3].id = "A11Y-001"
    /\ LET rows == LinesOfKind(output_file.text, "row")
       IN  /\ rows[1].id = "A11Y-002" /\ rows[1].severity = "Critical"
           /\ rows[2].id = "A11Y-001" /\ rows[2].severity = "Critical"
           /\ rows[3].severity = "Low"

\* C7: the total is the number of findings, each of the four counts is the
\* number of findings of exactly that severity, and a finding of an
\* unrecognized severity is in the total, in no count, in the table and in
\* the details.
C7_TotalsAndSplit ==
    rpc \in {"built", "done"} =>
        LET input   == payload.findings
            total   == LinesOfKind(markdown, "total")
            split   == LinesOfKind(markdown, "split")
            unknown == { i \in 1..Len(input) : input[i].severity \notin KnownSeverities }
        IN  /\ Len(total) = 1 /\ total[1].n = Len(input)
            /\ Len(split) = 1
            /\ \A sev \in KnownSeverities :
                  split[1].split[sev] =
                      Cardinality({ i \in 1..Len(input) : input[i].severity = sev })
            /\ split[1].split["Critical"] + split[1].split["High"]
                  + split[1].split["Medium"] + split[1].split["Low"]
                  = total[1].n - Cardinality(unknown)
            /\ \A i \in unknown :
                  /\ \E k \in 1..Len(markdown) :
                        /\ markdown[k].kind = "row"
                        /\ markdown[k].id = input[i].id
                        /\ markdown[k].severity = input[i].severity
                  /\ \E k \in 1..Len(markdown) :
                        /\ markdown[k].kind = "detail_severity"
                        /\ markdown[k].id = input[i].id
                        /\ markdown[k].severity = input[i].severity

C7_Witness ==
    /\ rpc = "done"
    /\ Len(payload.findings) = 3
    /\ \E i \in 1..3 : payload.findings[i].severity = "Blocker"
    /\ LET split == LinesOfKind(output_file.text, "split")[1].split
       IN  split["Critical"] = 1 /\ split["High"] = 0
           /\ split["Medium"] = 0 /\ split["Low"] = 1

\* The required keys an element lacks.
Lacking(f) == RequiredKeySet \ f.keys

Defective(f) ==
    \/ ~f.isdict
    \/ Lacking(f) # {}
    \/ ~f.reproduction.islist
    \/ f.reproduction.steps = <<>>

\* C8: load_findings fails when some element lacks a required key; the error
\* is about the earliest defective element, and when that element lacks keys
\* it names its position and exactly the keys it lacks; on success the list
\* is returned unchanged.
C8_MissingKeysNamed ==
    (rpc # "start" /\ payload.isdict /\ payload.hasFindings /\ payload.isList) =>
        LET list      == payload.findings
            lacking   == { i \in 1..Len(list) :
                              list[i].isdict /\ Lacking(list[i]) # {} }
            defective == { i \in 1..Len(list) : Defective(list[i]) }
        IN  /\ lacking # {} => rpc = "raised"
            /\ defective # {} =>
                  /\ rpc = "raised"
                  /\ error.index = Min(defective)
                  /\ Min(defective) \in lacking =>
                        /\ error.kind = "missing_keys"
                        /\ { error.missing[k] : k \in 1..Len(error.missing) }
                              = Lacking(list[Min(defective)])
                        /\ Len(error.missing)
                              = Cardinality(Lacking(list[Min(defective)]))
                  /\ Min(defective) \notin lacking => error.kind # "missing_keys"
            /\ defective = {} =>
                  /\ rpc # "raised"
                  /\ findings = list

C8_Witness ==
    /\ rpc = "raised"
    /\ Len(payload.findings) = 3
    /\ error.kind = "missing_keys"
    /\ error.index = 2
    /\ error.missing = <<"wcag", "url">>
    /\ Lacking(payload.findings[3]) # {}

\* The payload is what load_findings accepts.
ValidPayload(p) ==
    /\ p.isdict /\ p.hasFindings /\ p.isList
    /\ \A i \in 1..Len(p.findings) : ~Defective(p.findings[i])

\* C9: the output file is written only after the whole collection has passed
\* validation: in a run with an invalid payload the file is never written,
\* and the run ends in the ValueError.
C9_NoOutputOnInvalid ==
    /\ ~ValidPayload(payload) =>
          /\ output_file.state \in {"absent", "old"}
          /\ output_file.text = <<>>
          /\ rpc \in {"start", "raised"}
    /\ output_file.state = "written" => (rpc = "done" /\ ValidPayload(payload))

C9_Witness ==
    /\ rpc = "raised"
    /\ Len(payload.findings) = 3
    /\ error.index = 3
    /\ error.kind = "reproduction"
    /\ output_file.state = "absent"

(***************************************************************************)
(* Claims about issue_from_template.py                                     *)
(***************************************************************************)
\* The ID of an issue file: its prefix and its numeric suffix.
IdOf(name) == PREFIX \o <<Hyphen>> \o SplitSecond(Stem(name))

IssueFiles(d) == { name \in d : GlobMatch(PREFIX, name) }

Max(S) == CHOOSE x \in S : \A y \in S : y <= x

\* C10: next_issue_id returns the prefix with the highest numeric suffix
\* among the existing issue files plus one, 001 when there are none, and so
\* never the ID of an existing issue file.
C10_NextIdHighestPlusOne ==
    ipc = "allocated" =>
        /\ IssueFiles(dir) = {} => issue_id = PREFIX \o <<Hyphen, 48, 48, 49>>
        /\ IssueFiles(dir) # {} =>
              ParseInt(SplitSecond(issue_id)) =
                  Max({ ParseInt(SplitSecond(Stem(name))) : name \in IssueFiles(dir) }) + 1
        /\ \A name \in IssueFiles(dir) : IdOf(name) # issue_id

====
